---- MODULE Spec2Model ----
(***************************************************************************)
(* CSO Recommendations Tracker (cso_dashboard_streamlit.py).               *)
(*                                                                         *)
(* The script is re-executed from top to bottom whenever a widget changes. *)
(* The state is the CSV that was read, the table loaded from it, the state *)
(* of each input widget, and everything the last execution displayed.      *)
(* Every action changes one widget and re-executes the whole script.       *)
(*                                                                         *)
(* Cell values: text cells are strings, a missing cell (pandas NaN) is the *)
(* value NaN, dates are day numbers of January 2024 and a missing date     *)
(* (pandas NaT) is the value NaT.  Text cells are non-numeric strings, so  *)
(* every text column is loaded with dtype object.                          *)
(***************************************************************************)
EXTENDS Integers, Sequences, FiniteSets, TLC

VARIABLES
    uploaded_file,   \* the CSV that is read: [header, rows], rows of raw cell texts
    df,              \* the loaded table: [columns, rows]; row i has index label i-1
    agency,          \* selection of the Agency multiselect
    cso,             \* selection of the CSO multiselect
    status,          \* selection of the Status multiselect
    budget_area,     \* selection of the Budget Area multiselect
    date_range,      \* value of the date picker: <<start>> or <<start, end>>
    filtered_df,     \* the filtered view: index labels of the rows kept, in order
    total,
    adopted_full,
    adopted_partial,
    not_adopted,
    metrics,         \* the four st.metric values
    fig,             \* the pie chart: <<name, value>> per slice, <<>> when not drawn
    table,           \* the styled table: <<index label, Status cell style>> per row
    buffer,          \* the CSV offered for download: [header, rows]
    selected_idx,    \* value of the detail selectbox (None when it has no options)
    detail,          \* the lines of the detail panel, <<>> when it was not rendered
    err,             \* the exception that ended the execution, NoError if none
    changes          \* number of widget changes so far in the session

vars == <<uploaded_file, df, agency, cso, status, budget_area, date_range,
          filtered_df, total, adopted_full, adopted_partial, not_adopted,
          metrics, fig, table, buffer, selected_idx, detail, err, changes>>

(***************************************************************************)
(* Bounds of the model.                                                    *)
(***************************************************************************)
MaxRows == 3        \* rows of the CSV that is read
MaxDay == 2         \* dates range over 2024-01-01 .. 2024-01-0<MaxDay>
MaxChanges == 2     \* widget changes in one session

Days == 1..MaxDay

(***************************************************************************)
(* Values.                                                                 *)
(***************************************************************************)
NaN == "NaN"        \* a missing cell of the loaded table
NaT == 0            \* a missing date of the loaded table
None == -1          \* Python's None as a selectbox value
NoError == "none"

Range(s) == {s[i] : i \in 1..Len(s)}

RECURSIVE SetToSeq(_)
\* the labels of a set of index labels in increasing order
SetToSeq(S) ==
    IF S = {} THEN <<>>
    ELSE LET m == CHOOSE x \in S : \A y \in S : x <= y
         IN <<m>> \o SetToSeq(S \ {m})

status_options ==
    <<"Submitted", "Under Review", "Adopted (Fully)", "Adopted (Partially)", "Not Adopted">>

Columns ==
    <<"CSO Name", "Agency", "Date Submitted", "Status", "Budget Area",
      "Recommendation", "Reason">>

\* the column orders of the files read: that of the template, and another
Headers ==
    {Columns,
     <<"Agency", "CSO Name", "Status", "Date Submitted", "Reason",
       "Recommendation", "Budget Area">>}

\* the texts pandas.read_csv reads as a missing value by default
NaValues ==
    {"", "#N/A", "#N/A N/A", "#NA", "-1.#IND", "-1.#QNAN", "-NaN", "-nan",
     "1.#IND", "1.#QNAN", "<NA>", "N/A", "NA", "NULL", "NaN", "None", "n/a",
     "nan", "null"}

\* a date as to_csv writes it and as an f-string shows it
DateText(d) == "2024-01-0" \o ToString(d)

(***************************************************************************)
(* The CSV files read in the model: the rows of a sample file, of which    *)
(* any 1..MaxRows are present, in file order.                              *)
(***************************************************************************)
RawRow(c, a, d, s, b, r, e) ==
    [CSOName |-> c, Agency |-> a, DateSubmitted |-> d, Status |-> s,
     BudgetArea |-> b, Recommendation |-> r, Reason |-> e]

SampleRows ==
    << RawRow("Bantay Budget", "DOH", DateText(1), "Adopted (Fully)", "Health",
              "Raise the barangay health worker allowance", "Included in the NEP"),
       RawRow("Bantay Budget", "DepEd", DateText(MaxDay), "Not Adopted", "Education",
              "Fund school feeding all year", ""),
       RawRow("Social Watch", "DOH", DateText(MaxDay), "Submitted", "Health",
              "Publish the procurement plan", "N/A"),
       RawRow("Social Watch", "", DateText(1), "Pending", "Education",
              "Audit the textbook backlog", "Awaiting hearing"),
       RawRow("Social Watch", "DepEd", "", "Adopted (Partially)", "NA",
              "Hire more guidance counselors", ""),
       RawRow("Bantay Budget", "DOH", DateText(1), "Under Review", "Health",
              "", ""),
       RawRow("Social Watch", "DOH", DateText(MaxDay), "Not Adopted", "Health",
              "Open the bidding documents", "Deferred to next cycle") >>

SubSeqBy(s, S) == [i \in 1..Cardinality(S) |-> s[SetToSeq(S)[i]]]

\* The date picker of line 37 needs a default, so a file that is read has a
\* row with a date.
UploadedFiles ==
    { [header |-> h, rows |-> SubSeqBy(SampleRows, S)] :
        h \in Headers,
        S \in {T \in SUBSET (1..Len(SampleRows)) :
                 /\ Cardinality(T) >= 1
                 /\ Cardinality(T) <= MaxRows
                 /\ \E i \in T : SampleRows[i].DateSubmitted # ""} }

(***************************************************************************)
(* Data loader: pd.read_csv(..., parse_dates=["Date Submitted"]) and the   *)
(* cast of Status to the ordered categorical.                              *)
(***************************************************************************)
\* a text cell as read_csv loads it
ReadText(cell) == IF cell \in NaValues THEN NaN ELSE cell

\* a cell of the parsed date column
ParseDate(cell) ==
    IF cell \in NaValues THEN NaT
    ELSE CHOOSE d \in Days : DateText(d) = cell

\* pd.Categorical(values, categories=status_options): any other value is missing
Categorical(v) == IF v \in Range(status_options) THEN v ELSE NaN

ReadRow(raw) ==
    [CSOName |-> ReadText(raw.CSOName),
     Agency |-> ReadText(raw.Agency),
     DateSubmitted |-> ParseDate(raw.DateSubmitted),
     Status |-> Categorical(ReadText(raw.Status)),
     BudgetArea |-> ReadText(raw.BudgetArea),
     Recommendation |-> ReadText(raw.Recommendation),
     Reason |-> ReadText(raw.Reason)]

\* lines 18-28: the table loaded from a CSV
Loader(file) ==
    [columns |-> file.header,
     rows |-> [i \in 1..Len(file.rows) |-> ReadRow(file.rows[i])]]

\* the row of table d with index label l
Loc(d, l) == d.rows[l + 1]

(***************************************************************************)
(* Sidebar widgets.                                                        *)
(***************************************************************************)
\* sorted(df[col].dropna().unique()), as a set
AgencyOptions(d) == {d.rows[i].Agency : i \in 1..Len(d.rows)} \ {NaN}
CsoOptions(d) == {d.rows[i].CSOName : i \in 1..Len(d.rows)} \ {NaN}
BudgetAreaOptions(d) == {d.rows[i].BudgetArea : i \in 1..Len(d.rows)} \ {NaN}
StatusOptions == Range(status_options)

ValidDates(d) == {d.rows[i].DateSubmitted : i \in 1..Len(d.rows)} \ {NaT}

\* Series.min() and Series.max() skip missing dates
date_min(d) == CHOOSE x \in ValidDates(d) : \A y \in ValidDates(d) : x <= y
date_max(d) == CHOOSE x \in ValidDates(d) : \A y \in ValidDates(d) : x >= y

\* the default value of the date picker
DefaultDateRange(d) == <<date_min(d), date_max(d)>>

\* the values the date picker can take: one date while a range is being
\* picked, or a range start <= end
DateRanges ==
    {<<a>> : a \in Days} \cup {r \in Days \X Days : r[1] <= r[2]}

(***************************************************************************)
(* Filter engine, lines 39-48.                                             *)
(***************************************************************************)
\* Series.isin(values): a missing value is in no selection
IsIn(v, sel) == v # NaN /\ v \in sel

\* a comparison with a missing date is False
DateGe(d, x) == d # NaT /\ d >= x
DateLe(d, x) == d # NaT /\ d <= x

\* Copy that carries the view of the execution before into the next one
CopyCached(d) ==
    IF changes = 0 THEN [i \in 1..Len(d.rows) |-> i - 1] ELSE filtered_df

\* line 39: df.copy(), as the index labels of its rows
Copy(d) == [i \in 1..Len(d.rows) |-> i - 1]

FilterAgency(d, view, sel) ==
    LET Keep(l) == IsIn(Loc(d, l).Agency, sel)
    IN IF sel # {} THEN SelectSeq(view, Keep) ELSE view

FilterCso(d, view, sel) ==
    LET Keep(l) == IsIn(Loc(d, l).CSOName, sel)
    IN IF sel # {} THEN SelectSeq(view, Keep) ELSE view

\* FilterStatus that keeps the rows whose Status is missing
FilterStatusKeepsMissing(d, view, sel) ==
    LET Keep(l) == Loc(d, l).Status = NaN \/ IsIn(Loc(d, l).Status, sel)
    IN IF sel # {} THEN SelectSeq(view, Keep) ELSE view

FilterStatus(d, view, sel) ==
    LET Keep(l) == IsIn(Loc(d, l).Status, sel)
    IN IF sel # {} THEN SelectSeq(view, Keep) ELSE view

FilterBudgetArea(d, view, sel) ==
    LET Keep(l) == IsIn(Loc(d, l).BudgetArea, sel)
    IN IF sel # {} THEN SelectSeq(view, Keep) ELSE view

\* FilterDate with the end of the range excluded
FilterDateEndExclusive(d, view, dr) ==
    LET Keep(l) == /\ DateGe(Loc(d, l).DateSubmitted, dr[1])
                   /\ DateLe(Loc(d, l).DateSubmitted, dr[2] - 1)
    IN IF Len(dr) = 2 THEN SelectSeq(view, Keep) ELSE view

FilterDate(d, view, dr) ==
    LET Keep(l) == /\ DateGe(Loc(d, l).DateSubmitted, dr[1])
                   /\ DateLe(Loc(d, l).DateSubmitted, dr[2])
    IN IF Len(dr) = 2 THEN SelectSeq(view, Keep) ELSE view

Filtered(d, ag, cs, st, ba, dr) ==
    FilterDate(d,
        FilterBudgetArea(d,
            FilterStatus(d,
                FilterCso(d,
                    FilterAgency(d, Copy(d), ag),
                    cs),
                st),
            ba),
        dr)

(***************************************************************************)
(* Aggregator, lines 52-61.                                                *)
(***************************************************************************)
\* CountStatus over the loaded table instead of the filtered view
CountStatusOfTable(d, view, s) ==
    Cardinality({i \in 1..Len(d.rows) : d.rows[i].Status = s})

\* (filtered_df["Status"] == s).sum()
CountStatus(d, view, s) ==
    Cardinality({i \in 1..Len(view) : Loc(d, view[i]).Status = s})

\* Tenths that truncates instead of rounding
TenthsTruncated(count, n) == (1000 * count) \div n

\* count/total*100 in tenths, rounded to the nearest tenth as format(x, ".1f")
\* rounds it; a tie needs a total that is a multiple of 32 and goes to even.
Tenths(count, n) ==
    LET q == (1000 * count) \div n
        r == (1000 * count) % n
    IN IF 2 * r > n THEN q + 1
       ELSE IF 2 * r < n THEN q
       ELSE IF q % 2 = 0 THEN q ELSE q + 1

\* f"{x:.1f}%" of a value given in tenths
Format1f(t) == ToString(t \div 10) \o "." \o ToString(t % 10) \o "%"

\* f"{(count/total*100) if total else 0:.1f}%"
Percent(count, n) == Format1f(IF n # 0 THEN Tenths(count, n) ELSE 0)

(***************************************************************************)
(* Presentation, lines 63-116.                                             *)
(***************************************************************************)
\* Series.value_counts() of the categorical column: a count per category,
\* missing values not counted
ValueCounts(d, view) ==
    [s \in Range(status_options) |-> CountStatus(d, view, s)]

\* .reindex(order, fill_value=fill), as <<name, value>> pairs
Reindex(vc, order, fill) ==
    [i \in 1..Len(order) |->
        <<order[i], IF order[i] \in DOMAIN vc THEN vc[order[i]] ELSE fill>>]

\* status_counts without the zero-filled categories
status_counts_present(d, view) ==
    LET all == Reindex(ValueCounts(d, view), status_options, 0)
        Present(p) == p[2] > 0
    IN SelectSeq(all, Present)

status_counts(d, view) == Reindex(ValueCounts(d, view), status_options, 0)

\* lines 64-71: the pie chart is drawn only for a view that has rows
Pie(d, view) == IF Len(view) > 0 THEN status_counts(d, view) ELSE <<>>

color_status(val) ==
    "background-color: " \o
    (CASE val = "Submitted" -> "#e2e3e5"
       [] val = "Under Review" -> "#ffe599"
       [] val = "Adopted (Fully)" -> "#b6d7a8"
       [] val = "Adopted (Partially)" -> "#f9cb9c"
       [] val = "Not Adopted" -> "#ea9999"
       [] OTHER -> "#fff") \o ";"

\* lines 85-88
StyledTable(d, view) ==
    [i \in 1..Len(view) |-> <<view[i], color_status(Loc(d, view[i]).Status)>>]

\* WriteText with a dash for a missing value (na_rep="-")
WriteTextDash(v) == IF v = NaN THEN "-" ELSE v

\* a cell as DataFrame.to_csv writes it: a missing value is the empty text
WriteText(v) == IF v = NaN THEN "" ELSE v
WriteDate(x) == IF x = NaT THEN "" ELSE DateText(x)

WriteRow(row) ==
    [CSOName |-> WriteText(row.CSOName),
     Agency |-> WriteText(row.Agency),
     DateSubmitted |-> WriteDate(row.DateSubmitted),
     Status |-> WriteText(row.Status),
     BudgetArea |-> WriteText(row.BudgetArea),
     Recommendation |-> WriteText(row.Recommendation),
     Reason |-> WriteText(row.Reason)]

\* lines 91-92: filtered_df.to_csv(buffer, index=False)
ToCsv(d, view) ==
    [header |-> d.columns,
     rows |-> [i \in 1..Len(view) |-> WriteRow(Loc(d, view[i]))]]

\* format_func slices the Recommendation, which fails on a missing one
FormatFails(d, view) ==
    \E i \in 1..Len(view) : Loc(d, view[i]).Recommendation = NaN

\* lines 103-107: the selectbox keeps its value while its options are the
\* same, starts at the first option otherwise, and is None without options
Selectbox(view, prevOptions, prevSel) ==
    IF view = <<>> THEN None
    ELSE IF view = prevOptions /\ prevSel \in Range(view) THEN prevSel
    ELSE view[1]

\* a value inside an f-string
Str(v) == IF v = NaN THEN "nan" ELSE v
DateStr(x) == IF x = NaT THEN "NaT" ELSE DateText(x)

\* ReasonText without the placeholder
ReasonTextPlain(r) == Str(r)

\* rec['Reason'] if pd.notnull(rec['Reason']) and rec['Reason'] else '(none)'
ReasonText(r) == IF r # NaN /\ r # "" THEN r ELSE "(none)"

\* lines 108-116
DetailLines(r) ==
    << "**CSO Name:** " \o Str(r.CSOName),
       "**Agency:** " \o Str(r.Agency),
       "**Date Submitted:** " \o DateStr(r.DateSubmitted),
       "**Status:** " \o Str(r.Status),
       "**Reason/Explanation:** " \o ReasonText(r.Reason),
       "**Budget Area:** " \o Str(r.BudgetArea),
       "**Recommendation:**",
       Str(r.Recommendation) >>

(***************************************************************************)
(* One execution of the script on table d with the widgets at the given    *)
(* values; prevOptions and prevSel are the selectbox's options and value   *)
(* in the execution before.                                                *)
(***************************************************************************)
Run(d, ag, cs, st, ba, dr, prevOptions, prevSel) ==
    LET view == Filtered(d, ag, cs, st, ba, dr)
        n == Len(view)
        full == CountStatus(d, view, "Adopted (Fully)")
        partial == CountStatus(d, view, "Adopted (Partially)")
        notad == CountStatus(d, view, "Not Adopted")
        sel == IF FormatFails(d, view) THEN None
               ELSE Selectbox(view, prevOptions, prevSel)
        e == IF FormatFails(d, view) THEN "TypeError"      \* line 106
             ELSE IF sel = None THEN "KeyError"            \* line 108
             ELSE NoError
    IN [filtered_df |-> view,
        total |-> n,
        adopted_full |-> full,
        adopted_partial |-> partial,
        not_adopted |-> notad,
        metrics |-> <<n, Percent(full, n), Percent(partial, n), Percent(notad, n)>>,
        fig |-> Pie(d, view),
        table |-> StyledTable(d, view),
        buffer |-> ToCsv(d, view),
        selected_idx |-> sel,
        detail |-> IF e = NoError THEN DetailLines(Loc(d, sel)) ELSE <<>>,
        err |-> e]

\* the displays of the next state are those of the execution `out`
Shows(out) ==
    /\ filtered_df' = out.filtered_df
    /\ total' = out.total
    /\ adopted_full' = out.adopted_full
    /\ adopted_partial' = out.adopted_partial
    /\ not_adopted' = out.not_adopted
    /\ metrics' = out.metrics
    /\ fig' = out.fig
    /\ table' = out.table
    /\ buffer' = out.buffer
    /\ selected_idx' = out.selected_idx
    /\ detail' = out.detail
    /\ err' = out.err

\* re-execution after a widget change
Rerun(ag, cs, st, ba, dr, sel) ==
    /\ changes < MaxChanges
    /\ changes' = changes + 1
    /\ UNCHANGED <<uploaded_file, df>>
    /\ Shows(Run(df, ag, cs, st, ba, dr, filtered_df, sel))

Toggle(sel, x) == IF x \in sel THEN sel \ {x} ELSE sel \cup {x}

Init ==
    /\ uploaded_file \in UploadedFiles
    /\ df = Loader(uploaded_file)
    /\ agency = {}
    /\ cso = {}
    /\ status = {}
    /\ budget_area = {}
    /\ date_range = DefaultDateRange(df)
    /\ changes = 0
    /\ LET out == Run(df, {}, {}, {}, {}, DefaultDateRange(df), <<>>, None)
       IN /\ filtered_df = out.filtered_df
          /\ total = out.total
          /\ adopted_full = out.adopted_full
          /\ adopted_partial = out.adopted_partial
          /\ not_adopted = out.not_adopted
          /\ metrics = out.metrics
          /\ fig = out.fig
          /\ table = out.table
          /\ buffer = out.buffer
          /\ selected_idx = out.selected_idx
          /\ detail = out.detail
          /\ err = out.err

ChangeAgency ==
    \E a \in AgencyOptions(df) :
        /\ agency' = Toggle(agency, a)
        /\ UNCHANGED <<cso, status, budget_area, date_range>>
        /\ Rerun(agency', cso, status, budget_area, date_range, selected_idx)

ChangeCso ==
    \E c \in CsoOptions(df) :
        /\ cso' = Toggle(cso, c)
        /\ UNCHANGED <<agency, status, budget_area, date_range>>
        /\ Rerun(agency, cso', status, budget_area, date_range, selected_idx)

ChangeStatus ==
    \E s \in StatusOptions :
        /\ status' = Toggle(status, s)
        /\ UNCHANGED <<agency, cso, budget_area, date_range>>
        /\ Rerun(agency, cso, status', budget_area, date_range, selected_idx)

ChangeBudgetArea ==
    \E b \in BudgetAreaOptions(df) :
        /\ budget_area' = Toggle(budget_area, b)
        /\ UNCHANGED <<agency, cso, status, date_range>>
        /\ Rerun(agency, cso, status, budget_area', date_range, selected_idx)

ChangeDateRange ==
    \E r \in DateRanges :
        /\ r # date_range
        /\ date_range' = r
        /\ UNCHANGED <<agency, cso, status, budget_area>>
        /\ Rerun(agency, cso, status, budget_area, date_range', selected_idx)

SelectRow ==
    \E l \in Range(filtered_df) :
        /\ err = NoError
        /\ l # selected_idx
        /\ UNCHANGED <<agency, cso, status, budget_area, date_range>>
        /\ Rerun(agency, cso, status, budget_area, date_range, l)

Next ==
    \/ ChangeAgency
    \/ ChangeCso
    \/ ChangeStatus
    \/ ChangeBudgetArea
    \/ ChangeDateRange
    \/ SelectRow

Spec == Init /\ [][Next]_vars

(***************************************************************************)
(* Properties.  They are stated over the state alone: the file, the table, *)
(* the widgets and what is displayed.                                      *)
(***************************************************************************)
Labels == 0..(Len(df.rows) - 1)
InView == Range(filtered_df)
Vocabulary == {"Submitted", "Under Review", "Adopted (Fully)", "Adopted (Partially)",
               "Not Adopted"}

\* the raw Status cell of the row with label l in the file that was read
RawStatus(l) == uploaded_file.rows[l + 1].Status

\* the row with label l satisfies every active filter
Passes(l) ==
    LET row == df.rows[l + 1]
    IN /\ agency # {} => row.Agency \in agency
       /\ cso # {} => row.CSOName \in cso
       /\ status # {} => row.Status \in status
       /\ budget_area # {} => row.BudgetArea \in budget_area
       /\ Len(date_range) = 2 =>
            /\ row.DateSubmitted \in Days
            /\ date_range[1] <= row.DateSubmitted
            /\ row.DateSubmitted <= date_range[2]

\* number of rows of the view whose Status is s
InViewWithStatus(s) == Cardinality({l \in InView : df.rows[l + 1].Status = s})

FiltersUntouched ==
    /\ agency = {}
    /\ cso = {}
    /\ status = {}
    /\ budget_area = {}
    /\ date_range = DefaultDateRange(df)

\* C1: the filtered view holds rows of the loaded table only, each once, and
\* a loaded row is in it exactly when it satisfies every active filter
\* (membership in each non-empty selection, start <= date <= end).
C1_ViewIsTheRowsPassingAllFilters ==
    /\ InView \subseteq Labels
    /\ Len(filtered_df) = Cardinality(InView)
    /\ \A l \in Labels : l \in InView <=> Passes(l)

\* C1 witness: a set filter and a narrowed date range are active together and
\* keep some rows and drop others.
C1_Witness ==
    /\ agency # {}
    /\ Len(date_range) = 2
    /\ date_range # DefaultDateRange(df)
    /\ filtered_df # <<>>
    /\ Len(filtered_df) < Len(df.rows)
    /\ \E l \in Labels \ InView :
          df.rows[l + 1].Agency \in agency /\ df.rows[l + 1].DateSubmitted # NaT

\* the five status-category counts of the view, added up
SumOfStatusCounts ==
    InViewWithStatus("Submitted") + InViewWithStatus("Under Review")
    + InViewWithStatus("Adopted (Fully)") + InViewWithStatus("Adopted (Partially)")
    + InViewWithStatus("Not Adopted")

\* the counts the execution computed agree with the view
CountsAreOfTheView ==
    /\ total = Len(filtered_df)
    /\ adopted_full = InViewWithStatus("Adopted (Fully)")
    /\ adopted_partial = InViewWithStatus("Adopted (Partially)")
    /\ not_adopted = InViewWithStatus("Not Adopted")

\* C2 as claimed: the five status-category counts sum to the total row count,
\* also for a table with Status values outside the vocabulary.
C2_StatusCountsSumToTotal ==
    CountsAreOfTheView /\ SumOfStatusCounts = total

\* C2 amended: the five status-category counts sum to the number of rows of
\* the view whose Status cell is in the vocabulary.
C2_StatusCountsSumToRowsInVocabulary ==
    /\ CountsAreOfTheView
    /\ SumOfStatusCounts = Cardinality({l \in InView : RawStatus(l) \in Vocabulary})
    /\ SumOfStatusCounts = total - Cardinality({l \in InView : RawStatus(l) \notin Vocabulary})

\* C2 witness: a filter is active and the view holds a row with a Status
\* outside the vocabulary next to rows with one inside it.
C2_Witness ==
    /\ ~FiltersUntouched
    /\ Len(filtered_df) < Len(df.rows)
    /\ \E l \in InView : RawStatus(l) \notin Vocabulary
    /\ \E l \in InView : RawStatus(l) \in Vocabulary

\* C3 as claimed: with zero rows in the view the execution completes without
\* an error, the table is empty and the detail selector has no option.
C3_EmptyViewCompletesWithoutError ==
    total = 0 => (err = NoError /\ table = <<>> /\ selected_idx = None)

\* the pie chart shows the five categories in the defined order, each with
\* the number of rows of the view that have it
FigShowsFiveCategories ==
    /\ Len(fig) = 5
    /\ \A i \in 1..5 :
          /\ fig[i][1] = status_options[i]
          /\ fig[i][2] = InViewWithStatus(status_options[i])

\* C4 as claimed: for every view, one with zero rows included, the chart is
\* rendered with the five categories in order, zero-filled.
C4_ChartAlwaysHasFiveCategories == FigShowsFiveCategories

\* C4 amended: for every view with at least one row the chart is rendered
\* with the five categories in order, zero-filled; for a view with zero rows
\* no chart is rendered.
C4_ChartHasFiveCategoriesWhenViewHasRows ==
    /\ Len(filtered_df) > 0 => FigShowsFiveCategories
    /\ Len(filtered_df) = 0 => fig = <<>>

\* C4 witness: a filter narrowed the view, and the chart of the rows left has
\* a category at zero and a category above zero.
C4_Witness ==
    /\ ~FiltersUntouched
    /\ Len(filtered_df) > 0
    /\ Len(filtered_df) < Len(df.rows)
    /\ Len(fig) = 5
    /\ \E i \in 1..5 : fig[i][2] = 0
    /\ \E i \in 1..5 : fig[i][2] > 0

\* C5 as claimed: with every filter untouched the view is the loaded table,
\* rows with missing or unrecognized values included.
C5_UntouchedFiltersKeepEveryRow ==
    FiltersUntouched => filtered_df = [i \in 1..Len(df.rows) |-> i - 1]

\* text is count/n*100 to one decimal place, "0.0%" for n = 0
IsPercentOf(text, count, n) ==
    IF n = 0 THEN text = "0.0%"
    ELSE \E t \in 0..1000 :
            /\ text = ToString(t \div 10) \o "." \o ToString(t % 10) \o "%"
            /\ 2 * (t * n - 1000 * count) <= n
            /\ 2 * (1000 * count - t * n) <= n

\* C6: each percentage shown is the count of rows of the view with that
\* status over the total, times 100, to one decimal place, and 0.0% when the
\* total is 0.
C6_PercentagesToOneDecimal ==
    /\ metrics[1] = Len(filtered_df)
    /\ IsPercentOf(metrics[2], InViewWithStatus("Adopted (Fully)"), Len(filtered_df))
    /\ IsPercentOf(metrics[3], InViewWithStatus("Adopted (Partially)"), Len(filtered_df))
    /\ IsPercentOf(metrics[4], InViewWithStatus("Not Adopted"), Len(filtered_df))

\* C6 witness: the view [Adopted (Fully), Not Adopted, Submitted] with no
\* filter applied shows total 3, 33.3%, 0.0% and 33.3%.
C6_Witness ==
    /\ FiltersUntouched
    /\ [i \in 1..Len(df.rows) |-> df.rows[i].Status]
         = <<"Adopted (Fully)", "Not Adopted", "Submitted">>
    /\ metrics = <<3, "33.3%", "0.0%", "33.3%">>

\* C7: the Status filter offers and holds vocabulary members only, and while
\* it is active no row whose Status cell is outside the vocabulary is in the
\* view.
C7_UnknownStatusNeverPassesStatusFilter ==
    /\ StatusOptions = Vocabulary
    /\ status \subseteq Vocabulary
    /\ status # {} => \A l \in InView : RawStatus(l) \in Vocabulary

\* C7 witness: the Status filter is the only active filter, the table has a
\* row with a Status outside the vocabulary, and the view is not empty.
C7_Witness ==
    /\ status # {}
    /\ agency = {} /\ cso = {} /\ budget_area = {} /\ Len(date_range) = 1
    /\ \E l \in Labels : RawStatus(l) \notin Vocabulary
    /\ filtered_df # <<>>

ViewIsOfCurrentFilters ==
    /\ filtered_df = SetToSeq({l \in Labels : Passes(l)})
    /\ total = Len(filtered_df)
    /\ [i \in 1..Len(table) |-> table[i][1]] = filtered_df
    /\ Len(buffer.rows) = Len(filtered_df)

\* C10: no widget change alters the loaded table, and after any sequence of
\* changes the view is the result of the current filter values alone.
C10_ViewDependsOnCurrentFiltersOnly ==
    [][/\ df' = df
       /\ uploaded_file' = uploaded_file
       /\ ViewIsOfCurrentFilters']_vars

\* C10 witness: after filter changes the filters are back at their initial
\* values (and the view is again the initial one).
C10_Witness ==
    /\ changes >= 2
    /\ FiltersUntouched
    /\ filtered_df # <<>>

====
